---- MODULE Spec2Model ----
(***************************************************************************)
(* 1-out-of-2 oblivious transfer (src/src/lib.rs): OTSender, OTReceiver,   *)
(* hash_point and the hash-chain keystream cipher xor_encrypt.             *)
(*                                                                         *)
(* The Ristretto group is a cyclic group of prime order; a group element   *)
(* is represented by an element of the integers modulo the group order,    *)
(* so that the identity is 0, point addition is addition modulo the group  *)
(* order and scalar multiplication is multiplication modulo the group      *)
(* order; the base point is a generator other than 1, so that a scalar and *)
(* its multiple of the base point are different numbers.  Bytes are        *)
(* 0..255.                                                                 *)
(***************************************************************************)
EXTENDS Integers, Sequences, FiniteSets, TLC

VARIABLES pc, sender, receiver, msg1, msg2, msg3, m0, m1, received,
          rngDraws, calls, loops,
          cdata, ckey, cout, cstage,
          newArgs, sendArgs, recvArgs, prevRecv

\* the arguments of the calls made with messages that are not the run's
\* own: of OTReceiver::new, of send_encrypted, of the latest receive, and
\* the arguments and result of the receive before it
openVars == <<newArgs, sendArgs, recvArgs, prevRecv>>
protoVars == <<pc, sender, receiver, msg1, msg2, msg3, m0, m1, received,
               rngDraws, calls, loops, newArgs, sendArgs, recvArgs, prevRecv>>
cipherVars == <<cdata, ckey, cout, cstage>>
vars == <<pc, sender, receiver, msg1, msg2, msg3, m0, m1, received,
          rngDraws, calls, loops, cdata, ckey, cout, cstage,
          newArgs, sendArgs, recvArgs, prevRecv>>

----------------------------------------------------------------------------
(* Bounds and constants *)

\* order of the (prime-order) group, scaled down
GroupOrder == 5
\* digest length of the hash in bytes, scaled down
HashLen == 2
\* longest plaintext, in bytes
MaxLen == 4
\* largest value of the wide random buffer, reduced modulo the group order
MaxWide == 9
\* how often send_encrypted and receive may each be called in one run
MaxCalls == 2

Scalars == 0 .. (GroupOrder - 1)
Points == 0 .. (GroupOrder - 1)
WideBytes == 0 .. MaxWide

MsgA(n) == [i \in 1..n |-> (i * 37) % 256]
MsgB(n) == [i \in 1..n |-> 255 - i]
Messages == {MsgA(n) : n \in 0..MaxLen} \cup {MsgB(n) : n \in 0..MaxLen}

----------------------------------------------------------------------------
(* Group arithmetic (curve25519_dalek) *)

RISTRETTO_BASEPOINT_POINT == 2 % GroupOrder

ScalarMul(s, p) == (s * p) % GroupOrder
PointAdd(p, q) == (p + q) % GroupOrder
PointSub(p, q) == (p + GroupOrder - q) % GroupOrder

\* Scalar::from_bytes_mod_order_wide
from_bytes_mod_order_wide(wide) == wide % GroupOrder

\* RistrettoPoint::compress().as_bytes(): canonical little-endian encoding
Compress(p) == <<p % 256, p \div 256>>

----------------------------------------------------------------------------
(* Hash and cipher helpers *)

RECURSIVE Absorb(_, _)
Absorb(h, s) ==
    IF s = <<>> THEN h
    ELSE Absorb((h * 31 + Head(s) + 1) % 509, Tail(s))

\* Sha256::new / update / finalize: a fixed function from byte strings to
\* HashLen bytes
Sha256(s) ==
    LET h == Absorb(17 + Len(s), s)
    IN  [i \in 1..HashLen |-> (h * (2 * i + 1) + 89 * i + (h \div 7)) % 256]

hash_point(point) == Sha256(Compress(point))

RECURSIVE XorBits(_, _, _)
XorBits(a, b, n) ==
    IF n = 0 THEN 0
    ELSE (((a % 2) + (b % 2)) % 2) + 2 * XorBits(a \div 2, b \div 2, n - 1)

\* p ^ k on u8
Xor(a, b) == XorBits(a, b, 8)

\* the loop run as an if: one block at most
KeystreamLoopOnce(keystream, current_key, n, iters) ==
    IF Len(keystream) < n
    THEN [keystream |-> keystream \o Sha256(current_key), iters |-> iters + 1]
    ELSE [keystream |-> keystream, iters |-> iters]

RECURSIVE KeystreamLoopLe(_, _, _, _)
\* the loop with <= in its condition
KeystreamLoopLe(keystream, current_key, n, iters) ==
    IF Len(keystream) <= n
    THEN LET hash == Sha256(current_key)
         IN  KeystreamLoopLe(keystream \o hash, hash, n, iters + 1)
    ELSE [keystream |-> keystream, iters |-> iters]

RECURSIVE KeystreamLoopSameKey(_, _, _, _)
\* the loop without the update of current_key
KeystreamLoopSameKey(keystream, current_key, n, iters) ==
    IF Len(keystream) < n
    THEN LET hash == Sha256(current_key)
         IN  KeystreamLoopSameKey(keystream \o hash, current_key, n,
                                  iters + 1)
    ELSE [keystream |-> keystream, iters |-> iters]

RECURSIVE KeystreamLoop(_, _, _, _)
\* the while loop of xor_encrypt, with the number of iterations it ran
KeystreamLoop(keystream, current_key, n, iters) ==
    IF Len(keystream) < n
    THEN LET hash == Sha256(current_key)
         IN  KeystreamLoop(keystream \o hash, hash, n, iters + 1)
    ELSE [keystream |-> keystream, iters |-> iters]

Min(a, b) == IF a < b THEN a ELSE b

\* the map with a wrapping addition in place of ^
ZipAdd(plaintext, keystream) ==
    [i \in 1..Min(Len(plaintext), Len(keystream)) |->
        (plaintext[i] + keystream[i]) % 256]

\* plaintext.iter().zip(keystream.iter()).map(|(p, k)| p ^ k).collect()
ZipXor(plaintext, keystream) ==
    [i \in 1..Min(Len(plaintext), Len(keystream)) |->
        Xor(plaintext[i], keystream[i])]

xor_encrypt(plaintext, key) ==
    ZipXor(plaintext, KeystreamLoop(<<>>, key, Len(plaintext), 0).keystream)

xor_decrypt(ciphertext, key) == xor_encrypt(ciphertext, key)

\* iterations of the keystream loop in one call of xor_encrypt
LoopIters(plaintext, key) ==
    KeystreamLoop(<<>>, key, Len(plaintext), 0).iters

----------------------------------------------------------------------------
(* OTSender *)

\* Msg1 built from the private key
OTSender_newLeak(wide) ==
    LET private_key == from_bytes_mod_order_wide(wide)
        public_key == ScalarMul(private_key, RISTRETTO_BASEPOINT_POINT)
    IN  [sender |-> [private_key |-> private_key, public_key |-> public_key],
         message |-> [public_key |-> private_key]]

\* OTSender::new, from the bytes the randomness source delivered
OTSender_new(wide) ==
    LET private_key == from_bytes_mod_order_wide(wide)
        public_key == ScalarMul(private_key, RISTRETTO_BASEPOINT_POINT)
    IN  [sender |-> [private_key |-> private_key, public_key |-> public_key],
         message |-> [public_key |-> public_key]]

\* k0 computed as k1 is
k0_pointSub(self, bob_message) ==
    ScalarMul(self.private_key,
              PointSub(bob_message.public_key, self.public_key))

\* k0 = a * B
k0_point(self, bob_message) ==
    ScalarMul(self.private_key, bob_message.public_key)

\* k1 without the subtraction
k1_pointNoSub(self, bob_message) ==
    ScalarMul(self.private_key, bob_message.public_key)

\* k1 with the parentheses lost: a * B - A
k1_pointSlip(self, bob_message) ==
    PointSub(ScalarMul(self.private_key, bob_message.public_key),
             self.public_key)

\* k1 = a * (B - A)
k1_point(self, bob_message) ==
    ScalarMul(self.private_key,
              PointSub(bob_message.public_key, self.public_key))

send_encrypted(self, bob_message, pm0, pm1) ==
    LET k0 == hash_point(k0_point(self, bob_message))
        k1 == hash_point(k1_point(self, bob_message))
    IN  [encrypted_m0 |-> xor_encrypt(pm0, k0),
         encrypted_m1 |-> xor_encrypt(pm1, k1)]

----------------------------------------------------------------------------
(* OTReceiver *)

\* the choice branch never taken
OTReceiver_newNoAdd(choice, alice_msg, wide) ==
    LET private_key == from_bytes_mod_order_wide(wide)
        public_key == ScalarMul(private_key, RISTRETTO_BASEPOINT_POINT)
    IN  [receiver |-> [choice |-> choice, private_key |-> private_key,
                       public_key |-> public_key],
         message |-> [public_key |-> public_key]]

\* the choice branch assigning with = where the code has +=
OTReceiver_newAssign(choice, alice_msg, wide) ==
    LET private_key == from_bytes_mod_order_wide(wide)
        bG == ScalarMul(private_key, RISTRETTO_BASEPOINT_POINT)
        public_key == IF choice THEN alice_msg.public_key ELSE bG
    IN  [receiver |-> [choice |-> choice, private_key |-> private_key,
                       public_key |-> public_key],
         message |-> [public_key |-> public_key]]

\* OTReceiver::new, from the bytes the randomness source delivered
OTReceiver_new(choice, alice_msg, wide) ==
    LET private_key == from_bytes_mod_order_wide(wide)
        bG == ScalarMul(private_key, RISTRETTO_BASEPOINT_POINT)
        public_key == IF choice THEN PointAdd(bG, alice_msg.public_key)
                      ELSE bG
    IN  [receiver |-> [choice |-> choice, private_key |-> private_key,
                       public_key |-> public_key],
         message |-> [public_key |-> public_key]]

\* k with the parentheses of k1 lost: b * A - A
k_pointSlip(self, alice_msg1) ==
    PointSub(ScalarMul(self.private_key, alice_msg1.public_key),
             alice_msg1.public_key)

\* k = b * A
k_point(self, alice_msg1) ==
    ScalarMul(self.private_key, alice_msg1.public_key)

\* receive with the two branches exchanged
receiveSwapped(self, alice_msg2, alice_msg1) ==
    LET k == hash_point(k_point(self, alice_msg1))
    IN  IF self.choice
        THEN xor_decrypt(alice_msg2.encrypted_m0, k)
        ELSE xor_decrypt(alice_msg2.encrypted_m1, k)

\* receive multiplying its own public key, not the one of Msg1
receiveOwnKey(self, alice_msg2, alice_msg1) ==
    LET k == hash_point(ScalarMul(self.private_key, self.public_key))
    IN  IF self.choice
        THEN xor_decrypt(alice_msg2.encrypted_m1, k)
        ELSE xor_decrypt(alice_msg2.encrypted_m0, k)

receive(self, alice_msg2, alice_msg1) ==
    LET k == hash_point(k_point(self, alice_msg1))
    IN  IF self.choice
        THEN xor_decrypt(alice_msg2.encrypted_m1, k)
        ELSE xor_decrypt(alice_msg2.encrypted_m0, k)

----------------------------------------------------------------------------
(* One protocol run: OTSender::new, OTReceiver::new, send_encrypted,       *)
(* receive, as the callers in the tests and in main.rs invoke them.        *)

NoSender == [private_key |-> 0, public_key |-> 0]
NoReceiver == [choice |-> FALSE, private_key |-> 0, public_key |-> 0]
NoMsg == [public_key |-> 0]
NoMsg3 == [encrypted_m0 |-> <<>>, encrypted_m1 |-> <<>>]

CipherIdle ==
    /\ cdata = <<>>
    /\ ckey = <<>>
    /\ cout = <<>>
    /\ cstage = "idle"

ProtoStart ==
    /\ pc = "start"
    /\ sender = NoSender
    /\ receiver = NoReceiver
    /\ msg1 = NoMsg
    /\ msg2 = NoMsg
    /\ msg3 = NoMsg3
    /\ m0 = <<>>
    /\ m1 = <<>>
    /\ received = <<>>
    /\ rngDraws = [sender |-> 0, receiver |-> 0]
    /\ calls = [send |-> 0, recv |-> 0]
    /\ loops = <<>>
    /\ newArgs = [choice |-> FALSE, alice_msg |-> NoMsg]
    /\ sendArgs = NoMsg
    /\ recvArgs = [alice_msg2 |-> NoMsg3, alice_msg1 |-> NoMsg]
    /\ prevRecv = [alice_msg2 |-> NoMsg3, alice_msg1 |-> NoMsg, out |-> <<>>]

Init == ProtoStart /\ CipherIdle

SenderNew ==
    /\ pc = "start"
    /\ \E wide \in WideBytes :
         LET r == OTSender_new(wide)
         IN  /\ sender' = r.sender
             /\ msg1' = r.message
    /\ rngDraws' = [rngDraws EXCEPT !.sender = @ + 1]
    /\ pc' = "msg1"
    /\ UNCHANGED <<receiver, msg2, msg3, m0, m1, received, calls, loops>>
    /\ UNCHANGED cipherVars
    /\ UNCHANGED openVars

ReceiverNew ==
    /\ pc = "msg1"
    /\ \E choice \in BOOLEAN, wide \in WideBytes :
         LET r == OTReceiver_new(choice, msg1, wide)
         IN  /\ receiver' = r.receiver
             /\ msg2' = r.message
    /\ rngDraws' = [rngDraws EXCEPT !.receiver = @ + 1]
    /\ pc' = "msg2"
    /\ UNCHANGED <<sender, msg1, msg3, m0, m1, received, calls, loops>>
    /\ UNCHANGED cipherVars
    /\ UNCHANGED openVars

SendEncrypted ==
    /\ pc \in {"msg2", "msg3"}
    /\ calls.send < MaxCalls
    /\ \E pm0 \in Messages, pm1 \in Messages :
         /\ m0' = pm0
         /\ m1' = pm1
         /\ msg3' = send_encrypted(sender, msg2, pm0, pm1)
         /\ loops' = <<LoopIters(pm0, hash_point(k0_point(sender, msg2))),
                       LoopIters(pm1, hash_point(k1_point(sender, msg2)))>>
    /\ calls' = [calls EXCEPT !.send = @ + 1]
    /\ pc' = "msg3"
    /\ UNCHANGED <<sender, receiver, msg1, msg2, received, rngDraws>>
    /\ UNCHANGED cipherVars
    /\ UNCHANGED openVars

\* receive drawing from the randomness source
ReceiveDraws ==
    /\ pc \in {"msg3", "done"}
    /\ calls.recv < MaxCalls
    /\ \E wide \in WideBytes :
         received' = xor_decrypt(
             IF receiver.choice THEN msg3.encrypted_m1 ELSE msg3.encrypted_m0,
             hash_point(PointAdd(k_point(receiver, msg1),
                                 from_bytes_mod_order_wide(wide))))
    /\ loops' = <<LoopIters(IF receiver.choice THEN msg3.encrypted_m1
                                               ELSE msg3.encrypted_m0,
                            hash_point(k_point(receiver, msg1)))>>
    /\ rngDraws' = [rngDraws EXCEPT !.receiver = @ + 1]
    /\ calls' = [calls EXCEPT !.recv = @ + 1]
    /\ pc' = "done"
    /\ UNCHANGED <<sender, receiver, msg1, msg2, msg3, m0, m1>>
    /\ UNCHANGED cipherVars
    /\ UNCHANGED openVars

Receive ==
    /\ pc \in {"msg3", "done"}
    /\ calls.recv < MaxCalls
    /\ received' = receive(receiver, msg3, msg1)
    /\ loops' = <<LoopIters(IF receiver.choice THEN msg3.encrypted_m1
                                               ELSE msg3.encrypted_m0,
                            hash_point(k_point(receiver, msg1)))>>
    /\ calls' = [calls EXCEPT !.recv = @ + 1]
    /\ pc' = "done"
    /\ UNCHANGED <<sender, receiver, msg1, msg2, msg3, m0, m1, rngDraws>>
    /\ UNCHANGED cipherVars
    /\ UNCHANGED openVars

Next == SenderNew \/ ReceiverNew \/ SendEncrypted \/ Receive

Spec == Init /\ [][Next]_vars

----------------------------------------------------------------------------
(* The cipher on its own: xor_encrypt applied to a data string and a key,  *)
(* then xor_decrypt applied to the result with the same key.               *)

CipherKeys == {hash_point(p) : p \in Points}
                 \cup {<<>>, <<0>>, <<255, 255, 255>>}

CipherInit ==
    /\ ProtoStart
    /\ cdata \in Messages
    /\ ckey \in CipherKeys
    /\ cout = <<>>
    /\ cstage = "fresh"

CipherEncrypt ==
    /\ cstage = "fresh"
    /\ cout' = xor_encrypt(cdata, ckey)
    /\ cstage' = "enc"
    /\ UNCHANGED <<cdata, ckey>>
    /\ UNCHANGED protoVars

CipherDecrypt ==
    /\ cstage = "enc"
    /\ cout' = xor_decrypt(cout, ckey)
    /\ cstage' = "dec"
    /\ UNCHANGED <<cdata, ckey>>
    /\ UNCHANGED protoVars

CipherNext == CipherEncrypt \/ CipherDecrypt

SpecCipher == CipherInit /\ [][CipherNext]_vars

----------------------------------------------------------------------------
(* Properties *)

\* the first n bytes of the keystream xor_encrypt builds from key
KeystreamOf(key, n) ==
    SubSeq(KeystreamLoop(<<>>, key, n, 0).keystream, 1, n)

\* the key receive derives
ReceiverKey == hash_point(k_point(receiver, msg1))

\* plaintext, ciphertext and sender secret at the index the receiver did
\* not choose
UnchosenPlain == IF receiver.choice THEN m0 ELSE m1
UnchosenCipher ==
    IF receiver.choice THEN msg3.encrypted_m0 ELSE msg3.encrypted_m1
UnchosenPoint ==
    IF receiver.choice THEN k0_point(sender, msg2)
    ELSE k1_point(sender, msg2)
ChosenPoint ==
    IF receiver.choice THEN k1_point(sender, msg2)
    ELSE k0_point(sender, msg2)

\* C1: when a run has completed, receive has returned m0 if the choice is
\* false and m1 if the choice is true, whatever the lengths of m0 and m1.
C1_Correctness ==
    pc = "done" => received = (IF receiver.choice THEN m1 ELSE m0)

C1_Witness ==
    /\ pc = "done"
    /\ receiver.choice
    /\ Len(m0) # Len(m1)
    /\ Len(m1) > HashLen
    /\ m0 # <<>>
    /\ sender.private_key # 0
    /\ received = m1

\* C2 as stated: in a completed run, the cipher applied with the receiver's
\* key to the ciphertext at the index not chosen never gives back the
\* plaintext of that index (taken for the plaintexts that have a byte to
\* give back; the empty plaintext is always reproduced).
C2_Original ==
    (pc = "done" /\ UnchosenPlain # <<>>) =>
      xor_decrypt(UnchosenCipher, ReceiverKey) # UnchosenPlain

\* C2 amended: the cipher applied with the receiver's key to the unchosen
\* ciphertext gives back the unchosen plaintext exactly when the keystreams
\* of the receiver's key and of the unchosen key agree over the plaintext's
\* length; a zero sender scalar makes them agree for every plaintext, and
\* for a nonzero sender scalar the two keys are derived from different
\* points.
C2_WrongSide ==
    pc = "done" =>
      /\ (xor_decrypt(UnchosenCipher, ReceiverKey) = UnchosenPlain)
           <=> (KeystreamOf(ReceiverKey, Len(UnchosenPlain))
                  = KeystreamOf(hash_point(UnchosenPoint), Len(UnchosenPlain)))
      /\ sender.private_key = 0
           => xor_decrypt(UnchosenCipher, ReceiverKey) = UnchosenPlain
      /\ sender.private_key # 0
           => k_point(receiver, msg1) # UnchosenPoint

C2_Witness ==
    /\ pc = "done"
    /\ sender.private_key # 0
    /\ ~receiver.choice
    /\ Len(UnchosenPlain) > HashLen
    /\ xor_decrypt(UnchosenCipher, ReceiverKey) # UnchosenPlain
    /\ received = m0

\* C3: once the sender's Msg1 is fixed, the public elements OTReceiver::new
\* can send with choice false are the same set as those it can send with
\* choice true, over all values of the receiver's scalar.
C3_SameMsg2Sets ==
    pc # "start" =>
      {OTReceiver_new(FALSE, msg1, w).message : w \in WideBytes}
        = {OTReceiver_new(TRUE, msg1, w).message : w \in WideBytes}

C3_Witness ==
    /\ pc = "msg2"
    /\ receiver.choice
    /\ sender.private_key # 0
    /\ \E w \in WideBytes :
         /\ OTReceiver_new(FALSE, msg1, w).message = msg2
         /\ OTReceiver_new(FALSE, msg1, w).receiver.private_key
              # receiver.private_key

\* C4: xor_decrypt applied to the output of xor_encrypt under the same key
\* gives back the data, for the empty string and for data longer than one
\* hash block as well.
C4_Involution == cstage = "dec" => cout = cdata

C4_Witness ==
    /\ cstage = "dec"
    /\ Len(cdata) > HashLen
    /\ cout = cdata
    /\ xor_encrypt(cdata, ckey) # cdata

\* C5: each ciphertext of Msg3 is as long as its own plaintext, also when
\* the two plaintexts differ in length.
C5_Lengths ==
    pc \in {"msg3", "done"} =>
      /\ Len(msg3.encrypted_m0) = Len(m0)
      /\ Len(msg3.encrypted_m1) = Len(m1)

C5_Witness ==
    /\ pc = "msg3"
    /\ Len(m0) > HashLen
    /\ Len(m1) < Len(m0)
    /\ m1 # <<>>
    /\ Len(msg3.encrypted_m0) = Len(m0)
    /\ Len(msg3.encrypted_m1) = Len(m1)

\* C6: with m0 empty, m1 not empty and choice false, the run completes,
\* receive returns the empty string and its keystream loop runs zero times.
C6_EmptyMessage ==
    (pc = "done" /\ m0 = <<>> /\ m1 # <<>> /\ ~receiver.choice) =>
      /\ received = <<>>
      /\ loops = <<0>>

C6_Witness ==
    /\ pc = "done"
    /\ m0 = <<>>
    /\ m1 # <<>>
    /\ ~receiver.choice
    /\ received = <<>>
    /\ msg3.encrypted_m1 # <<>>

\* C7: the randomness source is drawn from once by OTSender::new and once
\* by OTReceiver::new and by nothing else; the Msg3 in flight is the value
\* of send_encrypted on the sender's state, Msg2 and the plaintexts, the
\* returned plaintext is the value of receive on the receiver's state, Msg3
\* and Msg1, and a repeated call with the same arguments returns the same.
C7_RandomnessOnlyInNew ==
    /\ [](pc \in {"msg2", "msg3", "done"}
            => rngDraws = [sender |-> 1, receiver |-> 1])
    /\ [](pc \in {"msg3", "done"}
            => msg3 = send_encrypted(sender, msg2, m0, m1))
    /\ [](pc = "done" => received = receive(receiver, msg3, msg1))
    /\ [][/\ calls' # calls => rngDraws' = rngDraws
          /\ (calls'.send # calls.send /\ pc = "msg3"
                /\ m0' = m0 /\ m1' = m1) => msg3' = msg3
          /\ (calls'.recv # calls.recv /\ pc = "done")
                => received' = received]_vars

C7_Witness ==
    /\ pc = "done"
    /\ calls = [send |-> MaxCalls, recv |-> MaxCalls]
    /\ rngDraws = [sender |-> 1, receiver |-> 1]
    /\ sender.private_key # 0
    /\ receiver.private_key # 0
    /\ received # <<>>

\* C9: in a completed run the point receive hashes, b * A, is the sender's
\* k0 = a * B when the choice is false and the sender's k1 = a * (B - A)
\* when the choice is true.
C9_SharedSecret ==
    pc = "done" => k_point(receiver, msg1) = ChosenPoint

C9_Witness ==
    /\ pc = "done"
    /\ receiver.choice
    /\ sender.private_key # 0
    /\ receiver.private_key # 0
    /\ k_point(receiver, msg1) = k1_point(sender, msg2)
    /\ k_point(receiver, msg1) # k0_point(sender, msg2)

\* C10 as stated: in a completed run the receiver's secret differs from k1
\* when the choice is false and from k0 when the choice is true, for every
\* sender scalar the sampling can produce.
C10_Original ==
    pc = "done" => k_point(receiver, msg1) # UnchosenPoint

\* C10 amended: the receiver's secret differs from the sender's secret of
\* the index not chosen for every nonzero sender scalar; for the sender
\* scalar zero, which the sampling can produce, k0, k1 and the receiver's
\* secret are all the identity.
C10_OnlyChosenMatches ==
    pc = "done" =>
      /\ sender.private_key # 0 => k_point(receiver, msg1) # UnchosenPoint
      /\ sender.private_key = 0 =>
           /\ k_point(receiver, msg1) = 0
           /\ k0_point(sender, msg2) = 0
           /\ k1_point(sender, msg2) = 0

C10_Witness ==
    /\ pc = "done"
    /\ sender.private_key # 0
    /\ receiver.private_key # 0
    /\ receiver.choice
    /\ k_point(receiver, msg1) # k0_point(sender, msg2)
    /\ k_point(receiver, msg1) = k1_point(sender, msg2)
    /\ received = m1

\* the hash chain: Block(key, 1) = hash(key), Block(key, i + 1) =
\* hash(Block(key, i))
RECURSIVE Block(_, _)
Block(key, i) == IF i = 0 THEN key ELSE Sha256(Block(key, i - 1))

\* C12: for every key and data length n the keystream loop of xor_encrypt
\* ends after ceil(n / HashLen) iterations, its blocks are the hash chain
\* of the key, and byte i of the output is byte i of the data XOR byte i
\* of the keystream, the bytes of the keystream after the n-th unused.
C12_Keystream ==
    cstage = "enc" =>
      LET n == Len(cdata)
          run == KeystreamLoop(<<>>, ckey, n, 0)
      IN  /\ run.iters = (n + HashLen - 1) \div HashLen
          /\ Len(run.keystream) = run.iters * HashLen
          /\ \A j \in 1..run.iters :
               SubSeq(run.keystream, (j - 1) * HashLen + 1, j * HashLen)
                 = Block(ckey, j)
          /\ Len(cout) = n
          /\ \A i \in 1..n :
               cout[i] = Xor(cdata[i],
                             Block(ckey, ((i - 1) \div HashLen) + 1)
                                  [((i - 1) % HashLen) + 1])

C12_Witness ==
    /\ cstage = "enc"
    /\ Len(cdata) > HashLen
    /\ Len(cdata) % HashLen # 0
    /\ LoopIters(cdata, ckey) >= 2
    /\ Len(KeystreamLoop(<<>>, ckey, Len(cdata), 0).keystream) > Len(cdata)
    /\ Block(ckey, 2) # Block(ckey, 1)
    /\ cout # cdata

----------------------------------------------------------------------------
(* A run whose calls are given messages that need not be the run's own:    *)
(* OTReceiver::new any Msg1, send_encrypted any Msg2, receive the sender's *)
(* latest Msg3 with any Msg1; send_encrypted and receive may be repeated.  *)

OpenMessages == {MsgA(1), MsgB(MaxLen)}

OpenReceiverNew ==
    /\ pc = "msg1"
    /\ \E choice \in BOOLEAN, wide \in WideBytes, p \in Points :
         LET alice_msg == [public_key |-> p]
             r == OTReceiver_new(choice, alice_msg, wide)
         IN  /\ receiver' = r.receiver
             /\ msg2' = r.message
             /\ newArgs' = [choice |-> choice, alice_msg |-> alice_msg]
    /\ rngDraws' = [rngDraws EXCEPT !.receiver = @ + 1]
    /\ pc' = "msg2"
    /\ UNCHANGED <<sender, msg1, msg3, m0, m1, received, calls, loops>>
    /\ UNCHANGED <<sendArgs, recvArgs, prevRecv>>
    /\ UNCHANGED cipherVars

\* send_encrypted keeping Msg2's element as its own public key
OpenSendEncryptedCaches ==
    /\ pc \in {"msg2", "msg3"}
    /\ calls.send < MaxCalls
    /\ \E p \in Points, pm0 \in OpenMessages, pm1 \in OpenMessages :
         LET bob_message == [public_key |-> p]
         IN  /\ m0' = pm0
             /\ m1' = pm1
             /\ sendArgs' = bob_message
             /\ msg3' = send_encrypted(sender, bob_message, pm0, pm1)
             /\ sender' = [sender EXCEPT !.public_key = p]
             /\ loops' =
                  <<LoopIters(pm0, hash_point(k0_point(sender, bob_message))),
                    LoopIters(pm1, hash_point(k1_point(sender, bob_message)))>>
    /\ calls' = [calls EXCEPT !.send = @ + 1]
    /\ pc' = "msg3"
    /\ UNCHANGED <<receiver, msg1, msg2, received, rngDraws>>
    /\ UNCHANGED <<newArgs, recvArgs, prevRecv>>
    /\ UNCHANGED cipherVars

OpenSendEncrypted ==
    /\ pc \in {"msg2", "msg3"}
    /\ calls.send < MaxCalls
    /\ \E p \in Points, pm0 \in OpenMessages, pm1 \in OpenMessages :
         LET bob_message == [public_key |-> p]
         IN  /\ m0' = pm0
             /\ m1' = pm1
             /\ sendArgs' = bob_message
             /\ msg3' = send_encrypted(sender, bob_message, pm0, pm1)
             /\ loops' =
                  <<LoopIters(pm0, hash_point(k0_point(sender, bob_message))),
                    LoopIters(pm1, hash_point(k1_point(sender, bob_message)))>>
    /\ calls' = [calls EXCEPT !.send = @ + 1]
    /\ pc' = "msg3"
    /\ UNCHANGED <<sender, receiver, msg1, msg2, received, rngDraws>>
    /\ UNCHANGED <<newArgs, recvArgs, prevRecv>>
    /\ UNCHANGED cipherVars

OpenReceive ==
    /\ pc \in {"msg3", "done"}
    /\ calls.recv < MaxCalls
    /\ \E p \in Points :
         LET alice_msg1 == [public_key |-> p]
         IN  /\ received' = receive(receiver, msg3, alice_msg1)
             /\ recvArgs' = [alice_msg2 |-> msg3, alice_msg1 |-> alice_msg1]
             /\ loops' =
                  <<LoopIters(IF receiver.choice THEN msg3.encrypted_m1
                                                 ELSE msg3.encrypted_m0,
                              hash_point(k_point(receiver, alice_msg1)))>>
    /\ calls' = [calls EXCEPT !.recv = @ + 1]
    /\ pc' = "done"
    /\ UNCHANGED <<sender, receiver, msg1, msg2, msg3, m0, m1, rngDraws>>
    /\ UNCHANGED <<newArgs, sendArgs, prevRecv>>
    /\ UNCHANGED cipherVars

OpenNext == SenderNew \/ OpenReceiverNew \/ OpenSendEncrypted \/ OpenReceive

SpecOpen == Init /\ [][OpenNext]_vars

\* C11: Msg1 is exactly the sender's public element a * G; the receiver
\* stores the choice it was given, its public element is b * G for choice
\* false and b * G + (the element of the Msg1 it was given) for choice
\* true, and Msg2 is exactly that element; Msg1 and Msg2 have the public
\* element as their only field and Msg3 the two ciphertexts.
C11_PublicElements ==
    /\ pc # "start" =>
         /\ sender.public_key
              = ScalarMul(sender.private_key, RISTRETTO_BASEPOINT_POINT)
         /\ msg1 = [public_key |-> sender.public_key]
    /\ pc \in {"msg2", "msg3", "done"} =>
         /\ receiver.choice = newArgs.choice
         /\ receiver.public_key
              = (IF newArgs.choice
                 THEN PointAdd(ScalarMul(receiver.private_key,
                                         RISTRETTO_BASEPOINT_POINT),
                               newArgs.alice_msg.public_key)
                 ELSE ScalarMul(receiver.private_key,
                                RISTRETTO_BASEPOINT_POINT))
         /\ msg2 = [public_key |-> receiver.public_key]
    /\ DOMAIN msg3 = {"encrypted_m0", "encrypted_m1"}

C11_Witness ==
    /\ pc = "msg2"
    /\ newArgs.choice
    /\ receiver.choice
    /\ sender.private_key # 0
    /\ receiver.private_key # 0
    /\ newArgs.alice_msg # msg1
    /\ msg1.public_key # sender.private_key
    /\ msg2.public_key # receiver.private_key
    /\ msg2.public_key
         # ScalarMul(receiver.private_key, RISTRETTO_BASEPOINT_POINT)

\* C13: once created, the sender's state and the receiver's state never
\* change, whatever calls of send_encrypted and receive follow and
\* whatever messages they are given; a call leaves Msg1 and Msg2, and
\* receive leaves Msg3, as they were.
C13_StatesImmutable ==
    [][/\ pc # "start" => sender' = sender
       /\ pc \in {"msg2", "msg3", "done"} => receiver' = receiver
       /\ calls' # calls =>
            /\ msg1' = msg1
            /\ msg2' = msg2
            /\ newArgs' = newArgs
       /\ calls'.recv # calls.recv =>
            /\ msg3' = msg3
            /\ recvArgs'.alice_msg2 = msg3
            /\ sendArgs' = sendArgs]_vars

C13_Witness ==
    /\ pc = "done"
    /\ calls = [send |-> MaxCalls, recv |-> MaxCalls]
    /\ receiver.choice
    /\ sendArgs # msg2
    /\ sendArgs.public_key # sender.public_key
    /\ recvArgs.alice_msg1 # msg1
    /\ sender.public_key
         = ScalarMul(sender.private_key, RISTRETTO_BASEPOINT_POINT)

\* C16: for every Msg2 given to send_encrypted, k0 - k1 = a * A, and k0
\* and k1 are the same point exactly when a * A is the identity.
C16_SecretDifference ==
    pc \in {"msg3", "done"} =>
      /\ PointSub(k0_point(sender, sendArgs), k1_point(sender, sendArgs))
           = ScalarMul(sender.private_key, sender.public_key)
      /\ (k0_point(sender, sendArgs) = k1_point(sender, sendArgs))
           <=> (ScalarMul(sender.private_key, sender.public_key) = 0)

C16_Witness ==
    /\ pc = "msg3"
    /\ sendArgs # msg2
    /\ sender.private_key # 0
    /\ k0_point(sender, sendArgs) # k1_point(sender, sendArgs)
    /\ msg3 = send_encrypted(sender, sendArgs, m0, m1)

\* the receiver's state has the fields of OTReceiver and no Msg1
ReceiverStoresNoMsg1 == DOMAIN receiver = {"choice", "private_key", "public_key"}

\* with choice false the receiver's state and Msg2 are what OTReceiver::new
\* returns for every other Msg1 as well
FalseChoiceIgnoresMsg1 ==
    ~receiver.choice =>
      \A p \in Points : \E w \in WideBytes :
        LET r == OTReceiver_new(FALSE, [public_key |-> p], w)
        IN  r.receiver = receiver /\ r.message = msg2

\* the run is the sender's own up to the Msg1 values: choice true, and
\* send_encrypted was given the receiver's Msg2
TrueChoiceRun == receiver.choice /\ sendArgs = msg2

\* C17 as stated: the receiver stores no Msg1; with choice false its state
\* and Msg2 do not depend on the Msg1 given to OTReceiver::new; with choice
\* true receive returns m1 only when the Msg1 given to receive is the one
\* given to OTReceiver::new and is the sender's (taken for nonzero scalars
\* of both parties).
C17_Original ==
    pc = "done" =>
      /\ ReceiverStoresNoMsg1
      /\ FalseChoiceIgnoresMsg1
      /\ (TrueChoiceRun /\ received = m1
            /\ sender.private_key # 0 /\ receiver.private_key # 0) =>
           /\ recvArgs.alice_msg1 = newArgs.alice_msg
           /\ newArgs.alice_msg = msg1

\* C17 amended: the receiver stores no Msg1; with choice false its state
\* and Msg2 do not depend on the Msg1 given to OTReceiver::new; with choice
\* true receive returns m1 whenever the Msg1 given to receive is the one
\* given to OTReceiver::new and is the sender's, and in general exactly
\* when the keystream of the key of b * (element given to receive) agrees
\* with that of the key of k1 over the length of m1, which also happens
\* for other Msg1 values: with equal scalars of the two parties, for every
\* element given to both OTReceiver::new and receive; with the receiver
\* scalar zero and the sender's Msg1 given to OTReceiver::new, for every
\* Msg1 given to receive.
C17_Msg1Use ==
    pc = "done" =>
      /\ ReceiverStoresNoMsg1
      /\ FalseChoiceIgnoresMsg1
      /\ (TrueChoiceRun /\ recvArgs.alice_msg1 = newArgs.alice_msg
            /\ newArgs.alice_msg = msg1) => received = m1
      /\ TrueChoiceRun =>
           ((received = m1) <=>
              (KeystreamOf(hash_point(k_point(receiver, recvArgs.alice_msg1)),
                           Len(m1))
                 = KeystreamOf(hash_point(k1_point(sender, sendArgs)),
                               Len(m1))))
      /\ (TrueChoiceRun /\ receiver.private_key = sender.private_key
            /\ recvArgs.alice_msg1 = newArgs.alice_msg) => received = m1
      /\ (TrueChoiceRun /\ receiver.private_key = 0
            /\ newArgs.alice_msg = msg1) => received = m1

C17_Witness ==
    /\ pc = "done"
    /\ TrueChoiceRun
    /\ sender.private_key # 0
    /\ receiver.private_key # 0
    /\ recvArgs.alice_msg1 = msg1
    /\ newArgs.alice_msg = msg1
    /\ Len(m1) > HashLen
    /\ received = m1

----------------------------------------------------------------------------
(* receive called on Msg3 values that are not what the sender sent: the    *)
(* run is the honest one up to send_encrypted, and receive is then called  *)
(* with the sender's Msg3 again, with a Msg3 one of whose ciphertexts was  *)
(* modified, or with the Msg3 of another run.                              *)

TamperMessages == {MsgA(1), MsgB(MaxLen)}
TamperDeltas == {1, 128}

\* byte i of ciphertext c changed by XOR with d
FlipAt(c, i, d) == [c EXCEPT ![i] = Xor(c[i], d)]

\* ciphertext c with its first or last byte changed, cut by a byte or
\* longer by a byte
Variants(c) ==
    {FlipAt(c, i, d) : i \in {1, Len(c)} \cap (1..Len(c)), d \in TamperDeltas}
      \cup {SubSeq(c, 1, Len(c) - 1) : i \in {1} \cap (1..Len(c))}
      \cup {c \o <<0>>}

ModifiedMsg3 ==
    {[msg3 EXCEPT !.encrypted_m0 = x] : x \in Variants(msg3.encrypted_m0)}
      \cup
    {[msg3 EXCEPT !.encrypted_m1 = y] : y \in Variants(msg3.encrypted_m1)}

\* the Msg3 of a run of another sender with other plaintexts
ForeignMsg3 ==
    {send_encrypted(OTSender_new(sender.private_key + 1).sender, msg2,
                    MsgB(2), MsgA(3))}

TamperInit ==
    /\ \E ws \in WideBytes, wr \in WideBytes, choice \in BOOLEAN,
          pm0 \in TamperMessages, pm1 \in TamperMessages :
         LET s == OTSender_new(ws)
             r == OTReceiver_new(choice, s.message, wr)
         IN  /\ sender = s.sender
             /\ msg1 = s.message
             /\ receiver = r.receiver
             /\ msg2 = r.message
             /\ newArgs = [choice |-> choice, alice_msg |-> s.message]
             /\ sendArgs = r.message
             /\ m0 = pm0
             /\ m1 = pm1
             /\ msg3 = send_encrypted(s.sender, r.message, pm0, pm1)
             /\ loops =
                  <<LoopIters(pm0, hash_point(k0_point(s.sender, r.message))),
                    LoopIters(pm1, hash_point(k1_point(s.sender, r.message)))>>
    /\ pc = "msg3"
    /\ received = <<>>
    /\ rngDraws = [sender |-> 1, receiver |-> 1]
    /\ calls = [send |-> 1, recv |-> 0]
    /\ recvArgs = [alice_msg2 |-> NoMsg3, alice_msg1 |-> NoMsg]
    /\ prevRecv = [alice_msg2 |-> NoMsg3, alice_msg1 |-> NoMsg, out |-> <<>>]
    /\ CipherIdle

\* one call receive(alice_msg2, msg1), the call before it kept in prevRecv
ReceiveGiven(alice_msg2) ==
    /\ pc \in {"msg3", "done"}
    /\ calls.recv < MaxCalls
    /\ received' = receive(receiver, alice_msg2, msg1)
    /\ recvArgs' = [alice_msg2 |-> alice_msg2, alice_msg1 |-> msg1]
    /\ prevRecv' = IF calls.recv = 0 THEN prevRecv
                   ELSE [alice_msg2 |-> recvArgs.alice_msg2,
                         alice_msg1 |-> recvArgs.alice_msg1,
                         out |-> received]
    /\ loops' = <<LoopIters(IF receiver.choice THEN alice_msg2.encrypted_m1
                                               ELSE alice_msg2.encrypted_m0,
                            hash_point(k_point(receiver, msg1)))>>
    /\ calls' = [calls EXCEPT !.recv = @ + 1]
    /\ pc' = "done"
    /\ UNCHANGED <<sender, receiver, msg1, msg2, msg3, m0, m1, rngDraws>>
    /\ UNCHANGED <<newArgs, sendArgs>>
    /\ UNCHANGED cipherVars

ReceiveReplayed == ReceiveGiven(msg3)

ReceiveModified == \E alice_msg2 \in ModifiedMsg3 : ReceiveGiven(alice_msg2)

ReceiveForeign == \E alice_msg2 \in ForeignMsg3 : ReceiveGiven(alice_msg2)

TamperNext == ReceiveReplayed \/ ReceiveModified \/ ReceiveForeign

SpecTamper == TamperInit /\ [][TamperNext]_vars

\* the ciphertext of a Msg3 at the receiver's choice, and the other one
ChosenOf(alice_msg2) ==
    IF receiver.choice THEN alice_msg2.encrypted_m1
    ELSE alice_msg2.encrypted_m0
OtherOf(alice_msg2) ==
    IF receiver.choice THEN alice_msg2.encrypted_m0
    ELSE alice_msg2.encrypted_m1

\* C14: for every Msg3 given to it (replayed, modified, of another run)
\* receive returns a byte string as long as the ciphertext at the chosen
\* index, and of two calls whose chosen ciphertexts have the same length,
\* every byte of the second result is the byte of the first result XOR the
\* difference of the two ciphertext bytes: a byte changed by XOR with d
\* changes that byte of the plaintext by XOR with d and no other.
C14_NoValidation ==
    pc = "done" =>
      /\ Len(received) = Len(ChosenOf(recvArgs.alice_msg2))
      /\ (calls.recv >= 2
            /\ Len(ChosenOf(recvArgs.alice_msg2))
                 = Len(ChosenOf(prevRecv.alice_msg2))) =>
           \A i \in 1..Len(received) :
             received[i]
               = Xor(prevRecv.out[i],
                     Xor(ChosenOf(recvArgs.alice_msg2)[i],
                         ChosenOf(prevRecv.alice_msg2)[i]))

C14_Witness ==
    /\ pc = "done"
    /\ calls.recv >= 2
    /\ prevRecv.alice_msg2 = msg3
    /\ Len(ChosenOf(msg3)) > HashLen
    /\ \E d \in TamperDeltas :
         /\ ChosenOf(recvArgs.alice_msg2)
              = FlipAt(ChosenOf(msg3), Len(ChosenOf(msg3)), d)
         /\ received = FlipAt(prevRecv.out, Len(prevRecv.out), d)
    /\ received # prevRecv.out
    /\ prevRecv.out = (IF receiver.choice THEN m1 ELSE m0)

\* C15: two calls of receive given Msg3 values with the same ciphertext at
\* the chosen index return the same, however the other ciphertexts differ.
C15_OnlyChosenRead ==
    (pc = "done" /\ calls.recv >= 2
       /\ recvArgs.alice_msg1 = prevRecv.alice_msg1
       /\ ChosenOf(recvArgs.alice_msg2) = ChosenOf(prevRecv.alice_msg2))
      => received = prevRecv.out

C15_Witness ==
    /\ pc = "done"
    /\ calls.recv >= 2
    /\ ChosenOf(recvArgs.alice_msg2) = ChosenOf(prevRecv.alice_msg2)
    /\ OtherOf(recvArgs.alice_msg2) # OtherOf(prevRecv.alice_msg2)
    /\ Len(OtherOf(recvArgs.alice_msg2)) # Len(OtherOf(prevRecv.alice_msg2))
    /\ received = prevRecv.out
    /\ received # <<>>
    /\ sender.private_key # 0

====
